---- MODULE Spec2Model ----
(***************************************************************************)
(* Mickey: the realtime voice session pipeline.                            *)
(*                                                                         *)
(* LiveClient (src/services/geminiService.ts, 265-404) as a state machine  *)
(* of its fields and of the handlers it installs, driven by the browser    *)
(* (microphone, audio contexts, timers) and by the remote live session.    *)
(* The voice-mode transcript handler (src/unnamed/part_001, 34-60) is the  *)
(* operator OnTranscriptHandler.                                           *)
(*                                                                         *)
(* Time is counted in whole ticks of one clock unit; the output audio      *)
(* context's currentTime advances with the wall clock while that context   *)
(* is open.  Every handler runs to completion (single-threaded event       *)
(* loop), promise reactions included, so a handler is one action.          *)
(*                                                                         *)
(* Spec is the whole client.  SpecPlayback, SpecTranscript and SpecCapture *)
(* are the same actions restricted to one side of it, small enough to be   *)
(* explored exhaustively; SpecTurns feeds the transcript handler.          *)
(* SpecCancel and SpecOrder add disconnect() and a third message to the    *)
(* transcript side.                                                        *)
(*                                                                         *)
(* Around the client: SpecVoiceMode is VoiceMode (src/unnamed/part_001)    *)
(* replacing its LiveClient on a voice change; SpecStore is the            *)
(* conversation store (src/services/storageService.ts); SpecChat is        *)
(* ChatScreen.handleSend (src/unnamed/part_000); SpecWorker is the fetch   *)
(* listener of src/service-worker.js.                                      *)
(*                                                                         *)
(* Besides the fields of the program the state holds what the properties   *)
(* need of the past: counters of the calls made and the last call of each  *)
(* kind (lastSched, lastTranscript, lastTick, lastTrace).                  *)
(***************************************************************************)
EXTENDS Integers, Sequences, FiniteSets, TLC

VARIABLES
    now,                 \* wall clock, the time base of setTimeout
    currentTime,         \* outputAudioContext.currentTime
    connectPc,           \* position of connect(): idle, awaitMic, done, failed
    inputAudioContext,   \* "null", "open", "closed"
    outputAudioContext,  \* "null", "open", "closed"
    micStream,           \* the MediaStream of getUserMedia: "none", "live"
    session,             \* this.session, a promise: "null", "pending", "resolved", "dead"
    ws,                  \* the remote connection: none, connecting, open, closing, errored, closed
    thenQueue,           \* reactions chained on this.session while it is pending
    isMuted,             \* LiveClient.isMuted
    nextStartTime,       \* LiveClient.nextStartTime
    nSched,              \* number of source.start calls so far
    lastSched,           \* the last source.start call: << [msg, at, start, dur] >>, or << >>
    sources,             \* LiveClient.sources: [id, end] of each tracked source
    ended,               \* ids of the sources whose onended callback has run
    stopped,             \* ids of the sources on which stop() has been called
    msgs,                \* number of inbound messages handled so far
    nOut,                \* ... of those carrying an output transcription
    nInp,                \* ... of those carrying an input transcription
    nAudio,              \* ... of those carrying a decodable model-audio payload
    timers,              \* pending setTimeout callbacks: [id, due] and, of the arrival
                         \* of their message, the time, the cursor and the clock
    nModel,              \* number of onTranscript(text, false) calls so far
    nUser,               \* number of onTranscript(text, true) calls so far
    lastTranscript,      \* the last onTranscript call: << [id, isUser, at, ...arrival] >>
    remoteEvents,        \* open / error / close events of the remote connection
    activity,            \* every onAudioActivity call, in order
    lastTick,            \* the last capture tick: << [muted, volume, forwarded] >>, or << >>
    frames,              \* capture ticks that reached the outbound path
    sent,                \* sendRealtimeInput calls made on an open connection
    sentNotOpen,         \* sendRealtimeInput calls made on a connection that is not open
    disconnects,         \* number of disconnect() calls so far
    lastTrace,           \* the effects of the last disconnect() call, in order
    threw,               \* some disconnect() call ended by an exception
    cancelled,           \* disconnect() was called while connect() was in flight
    unhandled,           \* rejected promises nobody handles
    messages,            \* VoiceMode's message list (turns)
    fed,                 \* the (text, isUser) events handed to the handler so far
    vmClients,           \* VoiceMode: the LiveClients its connect effect has created
    vmCur,               \* VoiceMode: clientRef.current, an index of vmClients (0: null)
    uiMuted,             \* VoiceMode: the isMuted state shown
    uiActive,            \* VoiceMode: the isActive state shown
    vmLeak,              \* a frame was transmitted while the mute state shown was on
    clock,               \* storage: the wall clock, in half seconds
    saveTimers,          \* storage: saveTimers, session id -> timer id (0: no entry)
    pendingSaves,        \* storage: the pending setTimeout callbacks of saveChat
    sessions,            \* localStorage['mikey_sessions']: the session list
    stored,              \* localStorage['mikey_messages_<id>']: << >> or << snapshot >>
    nSaves,              \* saveChat / saveChatImmediately calls with messages so far
    nWrites,             \* performSave calls so far
    lastWrite,           \* the last performSave call: << [id, by] >>, or << >>
    deleted,             \* ids deleted and not saved again since
    chatMessages,        \* ChatScreen: the messages state
    isLoading,           \* ChatScreen: the isLoading state
    sendCalls,           \* ChatScreen: the handleSend calls, their locals and position
    nSends,              \* handleSend calls so far
    cache,               \* service worker: the cache, request -> version held (0: none)
    netVersion,          \* the version of every resource the network serves now
    inflight,            \* service worker: network fetches whose response it will cache
    nFetches,            \* fetch events so far
    lastFetch            \* the last fetch event: << [req, route, hit, served, version, puts] >>, or << >>

vars == << now, currentTime, connectPc, inputAudioContext, outputAudioContext,
           micStream, session, ws, thenQueue, isMuted, nextStartTime, nSched,
           lastSched, sources, ended, stopped, msgs, nOut, nInp, nAudio, timers, nModel, nUser,
           lastTranscript, remoteEvents, activity, lastTick, frames, sent,
           sentNotOpen, disconnects, lastTrace, threw, cancelled, unhandled,
           messages, fed, vmClients, vmCur, uiMuted, uiActive, vmLeak,
           clock, saveTimers, pendingSaves, sessions, stored, nSaves,
           nWrites, lastWrite, deleted, chatMessages, isLoading, sendCalls,
           nSends, cache, netVersion, inflight, nFetches, lastFetch >>

clientVars == << now, currentTime, connectPc, inputAudioContext, outputAudioContext,
           micStream, session, ws, thenQueue, isMuted, nextStartTime, nSched,
           lastSched, sources, ended, stopped, msgs, nOut, nInp, nAudio, timers, nModel, nUser,
           lastTranscript, remoteEvents, activity, lastTick, frames, sent,
           sentNotOpen, disconnects, lastTrace, threw, cancelled, unhandled >>

turnVars == << messages, fed >>

vmVars == << vmClients, vmCur, uiMuted, uiActive, vmLeak >>

storeVars == << clock, saveTimers, pendingSaves, sessions, stored, nSaves,
               nWrites, lastWrite, deleted >>

\* The state of the application around the LiveClient.
chatVars == << chatMessages, isLoading, sendCalls, nSends >>

swVars == << cache, netVersion, inflight, nFetches, lastFetch >>

appVars == << vmVars, storeVars, chatVars, swVars >>

---------------------------------------------------------------------------
\* Bounds of the model.

MaxTime == 2          \* the clock stops advancing here
MaxDur == 2           \* longest decoded buffer, in clock units
MaxMsgs == 2          \* inbound messages per session
MaxOrderMsgs == 3     \* inbound messages per session, where their order is examined
MaxFrames == 2        \* unmuted capture ticks
MaxVolume == 1        \* RMS levels 0..MaxVolume
MaxDisconnects == 2   \* disconnect() calls
MaxEvents == 4        \* transcript events fed to the voice-mode handler
MaxClients == 3       \* LiveClients created by one VoiceMode
MaxClock == 3         \* the storage clock stops advancing here
MaxSaves == 2         \* saveChat / saveChatImmediately calls with messages
MaxSnap == 2          \* distinct non-empty message lists 1..MaxSnap; 0 is the empty list
MaxSends == 2         \* handleSend calls
MaxChunks == 2        \* chunks of one streamed reply
MaxVersion == 2       \* versions of a resource the network serves, 1..MaxVersion
MaxFetches == 3       \* fetch events the service worker sees

Max(a, b) == IF a >= b THEN a ELSE b

Durations == 1..MaxDur
Volumes == 0..MaxVolume

\* Session ids, message lists and chat modes handed to the conversation store.
Ids == {"a", "b"}
Snapshots == 0..MaxSnap
Modes == {"default", "image_gen"}

\* storageService.ts:133: the delay of the save timer, 1000 ms, in half seconds.
SaveDelay == 2

\* A handleSend call that has not been made: part_000:353.
NoCall == [pc |-> "none", mode |-> "default", isStreaming |-> FALSE,
           fullText |-> 0, nChunks |-> 0]

\* Host names as their labels and paths as their segments.
EsmSh == << "esm", "sh" >>
FontsGoogleapis == << "fonts", "googleapis", "com" >>
FontsGstatic == << "fonts", "gstatic", "com" >>
CdnTailwind == << "cdn", "tailwindcss", "com" >>
ApiHost == << "generativelanguage", "googleapis", "com" >>
OwnOrigin == << "localhost" >>

\* The requests the page makes: the external assets, the GenAI API, and the
\* application's own files.
Requests ==
    {[host |-> EsmSh, path |-> << "react" >>],
     [host |-> FontsGoogleapis, path |-> << "css2" >>],
     [host |-> FontsGstatic, path |-> << "s", "inter.woff2" >>],
     [host |-> CdnTailwind, path |-> << >>],
     [host |-> ApiHost, path |-> << "v1beta", "models", "generateContent" >>],
     [host |-> OwnOrigin, path |-> << "index.html" >>]}

\* A LiveClient as VoiceMode holds it: the position of its connect(), its
\* remote connection, its mute flag, whether its input context is open, and
\* whether an s.close() is chained on its pending session.
Unborn == [pc |-> "unborn", ws |-> "none", isMuted |-> FALSE, inputOpen |-> FALSE,
           closeQueued |-> FALSE]

---------------------------------------------------------------------------
\* State after `new LiveClient(...)` and VoiceMode's useState([]).

Init ==
    /\ now = 0
    /\ currentTime = 0
    /\ connectPc = "idle"
    /\ inputAudioContext = "null"
    /\ outputAudioContext = "null"
    /\ micStream = "none"
    /\ session = "null"
    /\ ws = "none"
    /\ thenQueue = << >>
    /\ isMuted = FALSE
    /\ nextStartTime = 0
    /\ nSched = 0
    /\ lastSched = << >>
    /\ sources = {}
    /\ ended = {}
    /\ stopped = {}
    /\ msgs = 0
    /\ nOut = 0
    /\ nInp = 0
    /\ nAudio = 0
    /\ timers = {}
    /\ nModel = 0
    /\ nUser = 0
    /\ lastTranscript = << >>
    /\ remoteEvents = << >>
    /\ activity = << >>
    /\ lastTick = << >>
    /\ frames = 0
    /\ sent = 0
    /\ sentNotOpen = 0
    /\ disconnects = 0
    /\ lastTrace = << >>
    /\ threw = FALSE
    /\ cancelled = FALSE
    /\ unhandled = {}
    /\ messages = << >>
    /\ fed = << >>
    /\ vmClients = [c \in 1..MaxClients |-> Unborn]
    /\ vmCur = 0
    /\ uiMuted = FALSE
    /\ uiActive = FALSE
    /\ vmLeak = FALSE
    /\ clock = 0
    /\ saveTimers = [id \in Ids |-> 0]
    /\ pendingSaves = {}
    /\ sessions = << >>
    /\ stored = [id \in Ids |-> << >>]
    /\ nSaves = 0
    /\ nWrites = 0
    /\ lastWrite = << >>
    /\ deleted = {}
    /\ chatMessages = << >>
    /\ isLoading = FALSE
    /\ sendCalls = [k \in 1..MaxSends |-> NoCall]
    /\ nSends = 0
    /\ cache = [r \in Requests |-> 0]
    /\ netVersion = 1
    /\ inflight = {}
    /\ nFetches = 0
    /\ lastFetch = << >>

---------------------------------------------------------------------------
\* Helpers translated from expressions of the source.

\* geminiService.ts:381  Math.max(this.outputAudioContext.currentTime, this.nextStartTime)
startAt_late(ct, nst) == ct
startAt_stale(ct, nst) == nst
startAt(ct, nst) == Max(ct, nst)

\* geminiService.ts:325  this.outputAudioContext?.currentTime || 0
clockRead == IF outputAudioContext = "null" THEN 0 ELSE currentTime

\* geminiService.ts:326  Math.max(0, this.nextStartTime - currentTime)
latency_none(nst, ct) == 0
latency(nst, ct) == Max(0, nst - ct)

\* geminiService.ts:398-399  ctx?.close(): nothing on null; closes an open context;
\* on a closed context close() returns a rejected promise (InvalidStateError),
\* which is not an exception of the caller.
CloseContext_unguarded(ctx) ==
    CASE ctx = "null"   -> [ctx |-> "null",   out |-> "throw"]
      [] ctx = "open"   -> [ctx |-> "closed", out |-> "ok"]
      [] OTHER          -> [ctx |-> "closed", out |-> "reject"]
CloseContext(ctx) ==
    CASE ctx = "null"   -> [ctx |-> "null",   out |-> "skip"]
      [] ctx = "open"   -> [ctx |-> "closed", out |-> "ok"]
      [] OTHER          -> [ctx |-> "closed", out |-> "reject"]

\* One reaction of `this.session.then(s => ...)` run against the resolved
\* session: st = [ws, sent, sentNotOpen].
\* geminiService.ts:308  s.sendRealtimeInput({ media })    geminiService.ts:401  s.close()
React(st, r) ==
    IF r = "send"
    THEN IF st.ws = "open"
         THEN [st EXCEPT !.sent = @ + 1]
         ELSE [st EXCEPT !.sentNotOpen = @ + 1]
    ELSE IF st.ws = "open" THEN [st EXCEPT !.ws = "closing"] ELSE st

RECURSIVE RunReactions(_, _)
RunReactions(st, q) ==
    IF q = << >> THEN st ELSE RunReactions(React(st, Head(q)), Tail(q))

\* `this.session.then(r)`: queued while the promise is pending, run at once
\* (next microtask) when it is resolved, never run when it will not resolve.
\* Yields [ws, sent, sentNotOpen, q].
SessionThen(r) ==
    LET st == [ws |-> ws, sent |-> sent, sentNotOpen |-> sentNotOpen] IN
    CASE session = "pending"  -> [st |-> st, q |-> Append(thenQueue, r)]
      [] session = "resolved" -> [st |-> React(st, r), q |-> thenQueue]
      [] OTHER                -> [st |-> st, q |-> thenQueue]

---------------------------------------------------------------------------
\* Groups of variables, for the UNCHANGED clauses.

clockVars == << now, currentTime >>
ctxVars   == << inputAudioContext, outputAudioContext >>
playVars  == << nextStartTime, nSched, lastSched, sources, ended >>
msgVars   == << msgs, nOut, nInp, nAudio >>
trVars    == << timers, nModel, nUser, lastTranscript >>
obsVars   == << remoteEvents, activity >>
capVars   == << lastTick, frames, sent, sentNotOpen >>
discVars  == << disconnects, lastTrace, threw, cancelled >>

---------------------------------------------------------------------------
\* connect(): geminiService.ts:279-285, up to the await of getUserMedia.
connect ==
    /\ connectPc = "idle"
    /\ inputAudioContext' = "open"
    /\ outputAudioContext' = "open"
    /\ currentTime' = 0
    /\ connectPc' = "awaitMic"
    /\ UNCHANGED << now, micStream, session, ws, thenQueue, isMuted, stopped,
                    playVars, msgVars, trVars, obsVars, capVars, discVars,
                    unhandled, turnVars, appVars >>

\* getUserMedia rejects: connect() rejects; its caller (part_001:68) attaches
\* no handler.  The two contexts stay as they are.
micDenied ==
    /\ connectPc = "awaitMic"
    /\ connectPc' = "failed"
    /\ unhandled' = unhandled \cup {"connect"}
    /\ UNCHANGED << clockVars, ctxVars, micStream, session, ws, thenQueue, isMuted,
                    stopped, playVars, msgVars, trVars, obsVars, capVars,
                    discVars, turnVars, appVars >>

\* getUserMedia resolves: geminiService.ts:285-370.  The stream is live from
\* here on.  On an input context that disconnect() has closed meanwhile,
\* createMediaStreamSource / createScriptProcessor throw InvalidStateError in
\* some browsers and succeed in others: `throws` ranges over both.
micGranted(throws) ==
    /\ connectPc = "awaitMic"
    /\ micStream' = "live"
    /\ IF throws
       THEN /\ inputAudioContext = "closed"
            /\ connectPc' = "failed"
            /\ unhandled' = unhandled \cup {"connect"}
            /\ UNCHANGED << session, ws >>
       ELSE /\ connectPc' = "done"
            /\ session' = "pending"
            /\ ws' = "connecting"
            /\ UNCHANGED unhandled
    /\ UNCHANGED << clockVars, ctxVars, thenQueue, isMuted, stopped, playVars,
                    msgVars, trVars, obsVars, capVars, discVars, turnVars, appVars >>

\* geminiService.ts:296-309: the unmuted path of onaudioprocess: the RMS goes to
\* the volume observer and the frame to `this.session.then(send)`.
LiveTick(rms) ==
    LET r == SessionThen("send") IN
    /\ frames < MaxFrames
    /\ lastTick' = << [muted |-> isMuted, volume |-> rms, forwarded |-> session # "null"] >>
    /\ frames' = frames + 1
    /\ IF session # "null"
       THEN /\ ws' = r.st.ws
            /\ sent' = r.st.sent
            /\ sentNotOpen' = r.st.sentNotOpen
            /\ thenQueue' = r.q
       ELSE UNCHANGED << ws, sent, sentNotOpen, thenQueue >>

\* geminiService.ts:291-294: the muted branch of onaudioprocess.
MutedTick_fallthrough == LiveTick(0)
MutedTick ==
    /\ lastTick' = << [muted |-> TRUE, volume |-> 0, forwarded |-> FALSE] >>
    /\ UNCHANGED << frames, ws, sent, sentNotOpen, thenQueue >>

\* processor.onaudioprocess: geminiService.ts:289-310.  The processor exists
\* once connect() has passed line 287 and runs while its context is open.
onaudioprocess(rms) ==
    /\ connectPc = "done"
    /\ inputAudioContext = "open"
    /\ IF isMuted THEN MutedTick ELSE LiveTick(rms)
    /\ UNCHANGED << clockVars, connectPc, ctxVars, micStream, session, isMuted,
                    stopped, playVars, msgVars, trVars, obsVars, discVars,
                    unhandled, turnVars, appVars >>

\* setMute: geminiService.ts:373-375.
setMute_flush(muted) ==
    /\ isMuted' = muted
    /\ thenQueue' = << >>
    /\ UNCHANGED << clockVars, connectPc, ctxVars, micStream, session, ws,
                    stopped, playVars, msgVars, trVars, obsVars,
                    capVars, discVars, unhandled, turnVars, appVars >>
setMute(muted) ==
    /\ isMuted' = muted
    /\ UNCHANGED << clockVars, connectPc, ctxVars, micStream, session, ws,
                    thenQueue, stopped, playVars, msgVars, trVars, obsVars,
                    capVars, discVars, unhandled, turnVars, appVars >>

---------------------------------------------------------------------------
\* Remote connection callbacks: geminiService.ts:319-359.

\* geminiService.ts:321
onopen_notify == Append(activity, TRUE)

\* onopen: the remote endpoint acknowledges; the session promise resolves in
\* the same task and the reactions chained on it run in order.
onopen ==
    LET st == RunReactions([ws |-> "open", sent |-> sent, sentNotOpen |-> sentNotOpen],
                           thenQueue) IN
    /\ ws = "connecting"
    /\ session' = "resolved"
    /\ activity' = onopen_notify
    /\ remoteEvents' = Append(remoteEvents, "open")
    /\ ws' = st.ws
    /\ sent' = st.sent
    /\ sentNotOpen' = st.sentNotOpen
    /\ thenQueue' = << >>
    /\ UNCHANGED << clockVars, connectPc, ctxVars, micStream, isMuted, stopped,
                    playVars, msgVars, trVars, lastTick, frames, discVars,
                    unhandled, turnVars, appVars >>

\* geminiService.ts:354
onclose_silent == activity
onclose_notify == Append(activity, FALSE)

\* onclose: geminiService.ts:352-355.  The connection closes: on the remote's
\* initiative (from open), after s.close() (closing) or after an error.
onclose ==
    /\ ws \in {"open", "closing", "errored"}
    /\ ws' = "closed"
    /\ activity' = onclose_notify
    /\ remoteEvents' = Append(remoteEvents, "close")
    /\ UNCHANGED << clockVars, connectPc, ctxVars, micStream, session, thenQueue,
                    isMuted, stopped, playVars, msgVars, trVars, capVars,
                    discVars, unhandled, turnVars, appVars >>

\* geminiService.ts:358
onerror_notify == Append(activity, FALSE)

\* onerror: geminiService.ts:356-359.  A transport error, during the handshake
\* or later; a session promise still pending will never resolve.
onerror ==
    /\ ws \in {"connecting", "open", "closing"}
    /\ ws' = "errored"
    /\ session' = IF session = "pending" THEN "dead" ELSE session
    /\ activity' = onerror_notify
    /\ remoteEvents' = Append(remoteEvents, "error")
    /\ UNCHANGED << clockVars, connectPc, ctxVars, micStream, thenQueue, isMuted,
                    stopped, playVars, msgVars, trVars, capVars, discVars,
                    unhandled, turnVars, appVars >>

\* playAudio: geminiService.ts:377-394.
playAudio(duration) ==
    IF outputAudioContext = "null"
    THEN UNCHANGED playVars
    ELSE LET start == startAt(currentTime, nextStartTime) IN
         /\ lastSched' = << [msg |-> msgs + 1, at |-> currentTime, start |-> start,
                              dur |-> duration] >>
         /\ nSched' = nSched + 1
         /\ nextStartTime' = start + duration
         /\ sources' = sources \cup {[id |-> nSched + 1, end |-> start + duration]}
         /\ UNCHANGED ended

\* decodeAudioData (audioUtils, not among the sources): fails on a malformed
\* payload, else yields a buffer of the payload's duration.
DecodeFails(audio) == audio = "bad"

\* The transcript branches of onmessage: geminiService.ts:329-339: the timers
\* set and the onTranscript calls made at once.  id numbers the timer.
Transcription(id, out, inp, lat) ==
    IF out
    THEN [timers |-> {[id |-> id, due |-> now + lat, arrived |-> now,
                       nst |-> nextStartTime, ct |-> clockRead]},
          calls  |-> << >>]
    ELSE IF inp
         THEN [timers |-> {},
               calls  |-> << [id |-> 0, isUser |-> TRUE, at |-> now, arrived |-> now,
                              nst |-> nextStartTime, ct |-> clockRead] >>]
         ELSE [timers |-> {}, calls |-> << >>]

\* geminiService.ts:342  msg.serverContent?.modelTurn?.parts?.[0]?.inlineData?.data
\* A message's audio is "none" (no part carries inline data), "bad" (parts[0]
\* carries an undecodable payload), "ok" (parts[0] carries a payload that
\* decodes to `duration`) or "later" (such a payload in a part after parts[0],
\* which itself carries none).
audioData(audio) == IF audio \in {"bad", "ok"} THEN audio ELSE "none"

\* The audio branch of onmessage: geminiService.ts:343-350.  A failed decode
\* rejects the promise of the async handler, which nobody awaits.
AudioOutput_scheduleBad(audio, duration) ==
    IF audioData(audio) # "none" /\ outputAudioContext # "null"
    THEN /\ playAudio(duration)
         /\ UNCHANGED unhandled
    ELSE UNCHANGED << playVars, unhandled >>
AudioOutput(audio, duration) ==
    IF audioData(audio) # "none" /\ outputAudioContext # "null"
    THEN IF DecodeFails(audioData(audio))
         THEN /\ unhandled' = unhandled \cup {"onmessage"}
              /\ UNCHANGED playVars
         ELSE /\ playAudio(duration)
              /\ UNCHANGED unhandled
    ELSE UNCHANGED << playVars, unhandled >>

\* onmessage: geminiService.ts:323-351.  out / inp: the message carries an
\* output / input transcription; audio and duration as above.
onmessage(out, inp, audio, duration) ==
    LET lat == latency(nextStartTime, clockRead)
        tr  == Transcription(nOut + 1, out, inp, lat)
    IN
    /\ ws = "open"
    /\ msgs' = msgs + 1
    /\ nOut' = IF out THEN nOut + 1 ELSE nOut
    /\ nInp' = IF inp THEN nInp + 1 ELSE nInp
    /\ nAudio' = IF audio \in {"ok", "later"} THEN nAudio + 1 ELSE nAudio
    /\ timers' = timers \cup tr.timers
    /\ nUser' = nUser + Len(tr.calls)
    /\ lastTranscript' = IF tr.calls = << >> THEN lastTranscript ELSE tr.calls
    /\ AudioOutput(audio, duration)
    /\ UNCHANGED << clockVars, connectPc, ctxVars, micStream, session, ws,
                    thenQueue, isMuted, stopped, nModel, obsVars, capVars,
                    discVars, turnVars, appVars >>

\* The order in which the browser runs expired timers: by the instant they are
\* due; a timer set earlier with a delay no longer than another's runs before
\* it.  Two timers due at the same instant, the earlier one set with the longer
\* delay, run in either order.
RunsBefore(t2, t) ==
    \/ t2.due < t.due
    \/ /\ t2.id < t.id
       /\ t2.due - t2.arrived <= t.due - t.arrived

\* The setTimeout callback of geminiService.ts:332-334; it runs no earlier
\* than its delay and nothing ever cancels it.
timerFire(t) ==
    /\ t \in timers
    /\ now >= t.due
    /\ \A t2 \in timers : ~RunsBefore(t2, t)
    /\ timers' = timers \ {t}
    /\ nModel' = nModel + 1
    /\ lastTranscript' = << [id |-> t.id, isUser |-> FALSE, at |-> now,
                             arrived |-> t.arrived, nst |-> t.nst, ct |-> t.ct] >>
    /\ UNCHANGED << clockVars, connectPc, ctxVars, micStream, session, ws,
                    thenQueue, isMuted, stopped, playVars, msgVars, nUser,
                    obsVars, capVars, discVars, unhandled, turnVars, appVars >>

\* source.onended: geminiService.ts:391-393.  The event is dispatched when the
\* buffer has played to its end on the running context, or after stop().
onended_leak(src) ==
    /\ src \in sources
    /\ src.id \notin ended
    /\ \/ src.id \in stopped
       \/ /\ outputAudioContext = "open"
          /\ src.end <= currentTime
    /\ ended' = ended \cup {src.id}
    /\ UNCHANGED << clockVars, connectPc, ctxVars, micStream, session, ws,
                    thenQueue, isMuted, stopped, nextStartTime, nSched, lastSched,
                    sources, msgVars, trVars, obsVars, capVars, discVars,
                    unhandled, turnVars, appVars >>
onended(src) ==
    /\ src \in sources
    /\ \/ src.id \in stopped
       \/ /\ outputAudioContext = "open"
          /\ src.end <= currentTime
    /\ sources' = sources \ {src}
    /\ ended' = ended \cup {src.id}
    /\ UNCHANGED << clockVars, connectPc, ctxVars, micStream, session, ws,
                    thenQueue, isMuted, stopped, nextStartTime, nSched, lastSched,
                    msgVars, trVars, obsVars, capVars, discVars, unhandled,
                    turnVars, appVars >>

\* sources.forEach(s => s.stop()): geminiService.ts:397.  stop() on a started
\* source never throws, also when repeated; the set itself is left as it is.
StopAll == stopped \cup {src.id : src \in sources}

\* disconnect: geminiService.ts:396-403.  An exception would end the call at
\* the statement that raised it.
disconnect ==
    LET inp    == CloseContext(inputAudioContext)
        threw1 == inp.out = "throw"
        outp   == CloseContext(outputAudioContext)
        threw2 == ~threw1 /\ outp.out = "throw"
        thrown == threw1 \/ threw2
        r      == SessionThen("close")
        trace  == << "stopAll" >>
                  \o (IF inp.out \in {"ok", "reject"} THEN << "closeInput" >> ELSE << >>)
                  \o (IF ~threw1 /\ outp.out \in {"ok", "reject"}
                      THEN << "closeOutput" >> ELSE << >>)
                  \o (IF ~thrown /\ session # "null" THEN << "closeSession" >> ELSE << >>)
    IN
    /\ disconnects < MaxDisconnects
    /\ stopped' = StopAll
    /\ inputAudioContext' = inp.ctx
    /\ outputAudioContext' = IF threw1 THEN outputAudioContext ELSE outp.ctx
    /\ unhandled' = unhandled
                    \cup (IF inp.out = "reject" THEN {"inputClose"} ELSE {})
                    \cup (IF ~threw1 /\ outp.out = "reject" THEN {"outputClose"} ELSE {})
    /\ IF ~thrown /\ session # "null"
       THEN /\ ws' = r.st.ws
            /\ thenQueue' = r.q
       ELSE UNCHANGED << ws, thenQueue >>
    /\ disconnects' = disconnects + 1
    /\ lastTrace' = trace
    /\ threw' = (threw \/ thrown)
    /\ cancelled' = (cancelled \/ connectPc = "awaitMic" \/ session = "pending")
    /\ UNCHANGED << clockVars, connectPc, micStream, session, isMuted, playVars,
                    msgVars, trVars, obsVars, capVars, turnVars, appVars >>

\* Time passes; an open output context's clock runs with it.
Tick ==
    /\ now < MaxTime
    /\ now' = now + 1
    /\ currentTime' = IF outputAudioContext = "open" THEN currentTime + 1 ELSE currentTime
    /\ UNCHANGED << connectPc, ctxVars, micStream, session, ws, thenQueue, isMuted,
                    stopped, playVars, msgVars, trVars, obsVars, capVars,
                    discVars, unhandled, turnVars, appVars >>

Next ==
    \/ connect
    \/ micDenied
    \/ \E throws \in BOOLEAN : micGranted(throws)
    \/ \E rms \in Volumes : onaudioprocess(rms)
    \/ \E muted \in BOOLEAN : setMute(muted)
    \/ onopen
    \/ onclose
    \/ onerror
    \/ /\ msgs < MaxMsgs
       /\ \E out \in BOOLEAN, inp \in BOOLEAN, audio \in {"none", "bad", "ok", "later"},
             duration \in Durations : onmessage(out, inp, audio, duration)
    \/ \E t \in timers : timerFire(t)
    \/ \E src \in sources : onended(src)
    \/ disconnect
    \/ Tick

Spec == Init /\ [][Next]_vars

\* The playback side alone.  Left out: the capture tick and setMute, which
\* write only isMuted, lastTick, frames, sent, sentNotOpen and "send" entries of
\* thenQueue; the transcript branches of onmessage and the transcript timers,
\* which write only msgVars and trVars.  No action kept here reads any of these
\* to decide another variable.
NextPlayback ==
    \/ connect
    \/ micDenied
    \/ \E throws \in BOOLEAN : micGranted(throws)
    \/ onopen
    \/ onclose
    \/ onerror
    \/ /\ msgs < MaxMsgs
       /\ \E audio \in {"none", "bad", "ok", "later"}, duration \in Durations :
             onmessage(FALSE, FALSE, audio, duration)
    \/ \E src \in sources : onended(src)
    \/ disconnect
    \/ Tick

SpecPlayback == Init /\ [][NextPlayback]_vars

\* The transcript side of a session nobody disconnects.  Left out: the capture
\* tick and setMute, as above; onended, which writes only `sources` and `ended`;
\* disconnect; audio carried by a part after parts[0], which only nAudio counts.
NextTranscript ==
    \/ connect
    \/ micDenied
    \/ \E throws \in BOOLEAN : micGranted(throws)
    \/ onopen
    \/ onclose
    \/ onerror
    \/ /\ msgs < MaxMsgs
       /\ \E out \in BOOLEAN, inp \in BOOLEAN, audio \in {"none", "bad", "ok"},
             duration \in Durations : onmessage(out, inp, audio, duration)
    \/ \E t \in timers : timerFire(t)
    \/ Tick

SpecTranscript == Init /\ [][NextTranscript]_vars

\* The transcript side of a session that is disconnected: messages carrying
\* an output transcription and possibly audio in parts[0], their timers, and
\* disconnect().
NextCancel ==
    \/ connect
    \/ micDenied
    \/ \E throws \in BOOLEAN : micGranted(throws)
    \/ onopen
    \/ onclose
    \/ onerror
    \/ /\ msgs < MaxMsgs
       /\ \E audio \in {"none", "ok"}, duration \in Durations :
             onmessage(TRUE, FALSE, audio, duration)
    \/ \E t \in timers : timerFire(t)
    \/ disconnect
    \/ Tick

SpecCancel == Init /\ [][NextCancel]_vars

\* The order of the transcript deliveries: messages carrying either an audio
\* payload in parts[0] or an output transcription, and the timers; sessions
\* one message longer than elsewhere.
NextOrder ==
    \/ connect
    \/ micDenied
    \/ \E throws \in BOOLEAN : micGranted(throws)
    \/ onopen
    \/ onclose
    \/ onerror
    \/ /\ msgs < MaxOrderMsgs
       /\ \E duration \in Durations :
             \/ onmessage(FALSE, FALSE, "ok", duration)
             \/ onmessage(TRUE, FALSE, "none", duration)
    \/ \E t \in timers : timerFire(t)
    \/ Tick

SpecOrder == Init /\ [][NextOrder]_vars

\* The capture side alone: no inbound message and no passing of time, which
\* write only the clocks, the playback schedule and the transcript logs.
NextCapture ==
    \/ connect
    \/ micDenied
    \/ \E throws \in BOOLEAN : micGranted(throws)
    \/ \E rms \in Volumes : onaudioprocess(rms)
    \/ \E muted \in BOOLEAN : setMute(muted)
    \/ onopen
    \/ onclose
    \/ onerror
    \/ disconnect

SpecCapture == Init /\ [][NextCapture]_vars

---------------------------------------------------------------------------
\* VoiceMode's transcript handler: part_001:34-60 (the updater given to
\* setMessages; id and timestamp of a turn play no part in the merging).

Chunks == {"", "Hel", "lo", "Hi"}

Role(isUser) == IF isUser THEN "user" ELSE "model"

OnTranscriptHandler_push(prev, text, isUser) ==
    Append(prev, [role |-> Role(isUser), text |-> text])
OnTranscriptHandler(prev, text, isUser) ==
    LET role == Role(isUser) IN
    IF prev # << >> /\ prev[Len(prev)].role = role
    THEN [prev EXCEPT ![Len(prev)] = [role |-> role, text |-> @.text \o text]]
    ELSE Append(prev, [role |-> role, text |-> text])

\* The LiveClient calls onTranscript(text, isUser): part_001:34-35.
onTranscript(text, isUser) ==
    /\ Len(fed) < MaxEvents
    /\ fed' = Append(fed, [text |-> text, isUser |-> isUser])
    /\ messages' = OnTranscriptHandler(messages, text, isUser)
    /\ UNCHANGED << clientVars, appVars >>

NextTurns == \E text \in Chunks, isUser \in BOOLEAN : onTranscript(text, isUser)

SpecTurns == Init /\ [][NextTurns]_vars

---------------------------------------------------------------------------
\* VoiceMode and the LiveClients it creates: part_001:14-88.  Each run of the
\* connect effect makes a new client, whose callbacks set VoiceMode's state;
\* the clients are the LiveClient above, reduced to what VoiceMode's state
\* depends on.

\* new LiveClient(...) followed by connect(), up to the await of getUserMedia:
\* part_001:33-68, geminiService.ts:271, 279-285.
NewClient == [pc |-> "awaitMic", ws |-> "none", isMuted |-> FALSE, inputOpen |-> TRUE,
              closeQueued |-> FALSE]

\* disconnect() of one client: geminiService.ts:396-403.
ClientDisconnect(cl) ==
    [cl EXCEPT !.inputOpen = FALSE,
               !.ws = IF cl.ws = "open" THEN "closing" ELSE cl.ws,
               !.closeQueued = (cl.closeQueued \/ cl.ws = "connecting")]

\* The connect effect: part_001:32-73.  It runs on mount and again when the
\* voice or the language changes, after the cleanup of its previous run.
connectEffect ==
    /\ vmCur < MaxClients
    /\ vmClients' = [c \in 1..MaxClients |->
                       IF c = vmCur + 1 THEN NewClient
                       ELSE IF c = vmCur THEN ClientDisconnect(vmClients[c])
                       ELSE vmClients[c]]
    /\ vmCur' = vmCur + 1
    /\ UNCHANGED << uiMuted, uiActive, vmLeak >>
    /\ UNCHANGED << clientVars, turnVars, storeVars, chatVars, swVars >>

\* toggleMute: part_001:81-88.
toggleMute ==
    /\ vmCur > 0
    /\ vmClients' = [vmClients EXCEPT ![vmCur].isMuted = ~uiMuted]
    /\ uiMuted' = ~uiMuted
    /\ UNCHANGED << vmCur, uiActive, vmLeak >>
    /\ UNCHANGED << clientVars, turnVars, storeVars, chatVars, swVars >>

\* getUserMedia of client c rejects: geminiService.ts:285.
vmMicDenied(c) ==
    /\ vmClients[c].pc = "awaitMic"
    /\ vmClients' = [vmClients EXCEPT ![c].pc = "failed"]
    /\ UNCHANGED << vmCur, uiMuted, uiActive, vmLeak >>
    /\ UNCHANGED << clientVars, turnVars, storeVars, chatVars, swVars >>

\* getUserMedia of client c resolves: geminiService.ts:285-316; on a closed
\* input context the graph construction may throw (see micGranted).
vmMicGranted(c, throws) ==
    /\ vmClients[c].pc = "awaitMic"
    /\ IF throws
       THEN /\ ~vmClients[c].inputOpen
            /\ vmClients' = [vmClients EXCEPT ![c].pc = "failed"]
       ELSE vmClients' = [vmClients EXCEPT ![c].pc = "done", ![c].ws = "connecting"]
    /\ UNCHANGED << vmCur, uiMuted, uiActive, vmLeak >>
    /\ UNCHANGED << clientVars, turnVars, storeVars, chatVars, swVars >>

\* onopen of client c: geminiService.ts:319-322, part_001:61; a chained
\* s.close() runs as the session resolves.
vmOnopen(c) ==
    /\ vmClients[c].ws = "connecting"
    /\ vmClients' = [vmClients EXCEPT
                       ![c].ws = IF vmClients[c].closeQueued THEN "closing" ELSE "open",
                       ![c].closeQueued = FALSE]
    /\ uiActive' = TRUE
    /\ UNCHANGED << vmCur, uiMuted, vmLeak >>
    /\ UNCHANGED << clientVars, turnVars, storeVars, chatVars, swVars >>

\* onclose of client c: geminiService.ts:352-355, part_001:61.
vmOnclose(c) ==
    /\ vmClients[c].ws \in {"open", "closing", "errored"}
    /\ vmClients' = [vmClients EXCEPT ![c].ws = "closed"]
    /\ uiActive' = FALSE
    /\ UNCHANGED << vmCur, uiMuted, vmLeak >>
    /\ UNCHANGED << clientVars, turnVars, storeVars, chatVars, swVars >>

\* onerror of client c: geminiService.ts:356-359, part_001:61.
vmOnerror(c) ==
    /\ vmClients[c].ws \in {"connecting", "open", "closing"}
    /\ vmClients' = [vmClients EXCEPT ![c].ws = "errored", ![c].closeQueued = FALSE]
    /\ uiActive' = FALSE
    /\ UNCHANGED << vmCur, uiMuted, vmLeak >>
    /\ UNCHANGED << clientVars, turnVars, storeVars, chatVars, swVars >>

\* A capture tick of client c: geminiService.ts:289-310.  The frame is
\* transmitted when the client is not muted and its connection is open.
vmCapture(c) ==
    /\ vmClients[c].pc = "done"
    /\ vmClients[c].inputOpen
    /\ ~vmClients[c].isMuted
    /\ vmClients[c].ws = "open"
    /\ vmLeak' = (vmLeak \/ uiMuted)
    /\ UNCHANGED << vmClients, vmCur, uiMuted, uiActive >>
    /\ UNCHANGED << clientVars, turnVars, storeVars, chatVars, swVars >>

NextVoiceMode ==
    \/ connectEffect
    \/ toggleMute
    \/ \E c \in 1..MaxClients : vmMicDenied(c)
    \/ \E c \in 1..MaxClients, throws \in BOOLEAN : vmMicGranted(c, throws)
    \/ \E c \in 1..MaxClients : vmOnopen(c)
    \/ \E c \in 1..MaxClients : vmOnclose(c)
    \/ \E c \in 1..MaxClients : vmOnerror(c)
    \/ \E c \in 1..MaxClients : vmCapture(c)

SpecVoiceMode == Init /\ [][NextVoiceMode]_vars

---------------------------------------------------------------------------
\* The conversation store: storageService.ts.  A message list is one of the
\* Snapshots (0: the empty list); a session entry is [id, mode, timestamp] (its
\* title, computed from the messages at lines 79-93, decides nothing here).

\* storageService.ts:16  sessions.sort((a, b) => b.timestamp - a.timestamp),
\* a stable sort, newest first.
InsertDesc(sorted, x) ==
    LET k == Cardinality({i \in DOMAIN sorted : sorted[i].timestamp >= x.timestamp}) IN
    SubSeq(sorted, 1, k) \o << x >> \o SubSeq(sorted, k + 1, Len(sorted))

RECURSIVE SortDesc(_)
SortDesc(list) ==
    IF list = << >> THEN << >>
    ELSE InsertDesc(SortDesc(SubSeq(list, 1, Len(list) - 1)), list[Len(list)])

\* getChatSessions: storageService.ts:11-22.
getChatSessions == SortDesc(sessions)

\* sessions.filter(s => s.id !== sessionId): storageService.ts:39.
RECURSIVE WithoutId(_, _)
WithoutId(list, id) ==
    IF list = << >> THEN << >>
    ELSE IF Head(list).id = id THEN WithoutId(Tail(list), id)
         ELSE << Head(list) >> \o WithoutId(Tail(list), id)

\* sessions.findIndex(s => s.id === sessionId): storageService.ts:96 (0: none).
FindIndex(list, id) ==
    IF \E i \in DOMAIN list : list[i].id = id
    THEN CHOOSE i \in DOMAIN list :
            /\ list[i].id = id
            /\ \A j \in DOMAIN list : list[j].id = id => i <= j
    ELSE 0

\* performSave: storageService.ts:71-121, with no failing write: the session
\* list and the messages key it leaves.
performSave_alwaysPush(id, snap, mode) ==
    LET entry == [id |-> id, mode |-> mode, timestamp |-> clock] IN
    [sessions |-> Append(sessions, entry),
     stored   |-> [stored EXCEPT ![id] = << snap >>]]
performSave(id, snap, mode) ==
    LET entry == [id |-> id, mode |-> mode, timestamp |-> clock]
        k     == FindIndex(sessions, id)
    IN
    [sessions |-> IF k > 0 THEN [sessions EXCEPT ![k] = entry]
                  ELSE Append(sessions, entry),
     stored   |-> [stored EXCEPT ![id] = << snap >>]]

\* The pending save timers of one session id.
PendingOf(pending, id) == {t \in pending : t.id = id}

\* saveChat: storageService.ts:123-134.  clearTimeout removes the timer the
\* entry names; the new timer takes the entry.
saveChat_noclear(id, snap, mode) ==
    /\ nSaves < MaxSaves
    /\ snap # 0
    /\ pendingSaves' = pendingSaves
                        \cup {[tid |-> nSaves + 1, id |-> id, due |-> clock + SaveDelay,
                               msgs |-> snap, mode |-> mode]}
    /\ saveTimers' = [saveTimers EXCEPT ![id] = nSaves + 1]
    /\ nSaves' = nSaves + 1
    /\ deleted' = deleted \ {id}
    /\ UNCHANGED << clock, sessions, stored, nWrites, lastWrite >>
    /\ UNCHANGED << clientVars, turnVars, vmVars, chatVars, swVars >>
saveChat(id, snap, mode) ==
    /\ nSaves < MaxSaves
    /\ snap # 0
    /\ pendingSaves' = {t \in pendingSaves : t.tid # saveTimers[id]}
                        \cup {[tid |-> nSaves + 1, id |-> id, due |-> clock + SaveDelay,
                               msgs |-> snap, mode |-> mode]}
    /\ saveTimers' = [saveTimers EXCEPT ![id] = nSaves + 1]
    /\ nSaves' = nSaves + 1
    /\ deleted' = deleted \ {id}
    /\ UNCHANGED << clock, sessions, stored, nWrites, lastWrite >>
    /\ UNCHANGED << clientVars, turnVars, vmVars, chatVars, swVars >>

\* saveChat / saveChatImmediately with an empty message list return at once:
\* storageService.ts:124, 137.
saveNothing(id) ==
    /\ deleted' = deleted \ {id}
    /\ UNCHANGED << clock, saveTimers, pendingSaves, sessions, stored, nSaves,
                    nWrites, lastWrite >>
    /\ UNCHANGED << clientVars, turnVars, vmVars, chatVars, swVars >>

\* The callback of the save timer: storageService.ts:130-133.  It runs no
\* earlier than its delay.
saveTimerFire(t) ==
    LET w == performSave(t.id, t.msgs, t.mode) IN
    /\ t \in pendingSaves
    /\ clock >= t.due
    /\ pendingSaves' = pendingSaves \ {t}
    /\ sessions' = w.sessions
    /\ stored' = w.stored
    /\ saveTimers' = [saveTimers EXCEPT ![t.id] = 0]
    /\ nWrites' = nWrites + 1
    /\ lastWrite' = << [id |-> t.id, by |-> "timer"] >>
    /\ UNCHANGED << clock, nSaves, deleted >>
    /\ UNCHANGED << clientVars, turnVars, vmVars, chatVars, swVars >>

\* saveChatImmediately: storageService.ts:136-143.
saveChatImmediately_nocancel(id, snap, mode) ==
    LET w == performSave(id, snap, mode) IN
    /\ nSaves < MaxSaves
    /\ snap # 0
    /\ sessions' = w.sessions
    /\ stored' = w.stored
    /\ nSaves' = nSaves + 1
    /\ nWrites' = nWrites + 1
    /\ lastWrite' = << [id |-> id, by |-> "immediate"] >>
    /\ deleted' = deleted \ {id}
    /\ UNCHANGED << clock, pendingSaves, saveTimers >>
    /\ UNCHANGED << clientVars, turnVars, vmVars, chatVars, swVars >>
saveChatImmediately(id, snap, mode) ==
    LET w == performSave(id, snap, mode) IN
    /\ nSaves < MaxSaves
    /\ snap # 0
    /\ pendingSaves' = {t \in pendingSaves : t.tid # saveTimers[id]}
    /\ saveTimers' = [saveTimers EXCEPT ![id] = 0]
    /\ sessions' = w.sessions
    /\ stored' = w.stored
    /\ nSaves' = nSaves + 1
    /\ nWrites' = nWrites + 1
    /\ lastWrite' = << [id |-> id, by |-> "immediate"] >>
    /\ deleted' = deleted \ {id}
    /\ UNCHANGED clock
    /\ UNCHANGED << clientVars, turnVars, vmVars, chatVars, swVars >>

\* deleteChat: storageService.ts:35-47.
deleteChat(id) ==
    /\ sessions' = WithoutId(getChatSessions, id)
    /\ stored' = [stored EXCEPT ![id] = << >>]
    /\ deleted' = deleted \cup {id}
    /\ UNCHANGED << clock, saveTimers, pendingSaves, nSaves, nWrites,
                    lastWrite >>
    /\ UNCHANGED << clientVars, turnVars, vmVars, chatVars, swVars >>

\* clearAllData: storageService.ts:49-65.
clearAllData ==
    /\ sessions' = << >>
    /\ stored' = [id \in Ids |-> << >>]
    /\ UNCHANGED << clock, saveTimers, pendingSaves, nSaves, nWrites,
                    lastWrite, deleted >>
    /\ UNCHANGED << clientVars, turnVars, vmVars, chatVars, swVars >>

\* Half a second passes.
storeTick ==
    /\ clock < MaxClock
    /\ clock' = clock + 1
    /\ UNCHANGED << saveTimers, pendingSaves, sessions, stored, nSaves,
                    nWrites, lastWrite, deleted >>
    /\ UNCHANGED << clientVars, turnVars, vmVars, chatVars, swVars >>

NextStore ==
    \/ \E id \in Ids, snap \in Snapshots, mode \in Modes : saveChat(id, snap, mode)
    \/ \E id \in Ids, snap \in Snapshots, mode \in Modes :
          saveChatImmediately(id, snap, mode)
    \/ \E id \in Ids : saveNothing(id)
    \/ \E t \in pendingSaves : saveTimerFire(t)
    \/ \E id \in Ids : deleteChat(id)
    \/ clearAllData
    \/ storeTick

SpecStore == Init /\ [][NextStore]_vars

---------------------------------------------------------------------------
\* ChatScreen.handleSend: part_000:353-432, with sendMessageToGemini
\* (geminiService.ts:240-260).  A message is [id, role, text]; an id names the
\* call and the message of it (crypto.randomUUID gives each its own); a text is
\* the number of text units it holds.

UserId(k) == [call |-> k, kind |-> "user"]
StreamId(k) == [call |-> k, kind |-> "stream"]
FinalId(k) == [call |-> k, kind |-> "final"]

\* prev.map(msg => msg.id === streamMsgId ? {...msg, text} : msg):
\* part_000:411-413, 423-425.
MapText(list, id, text) ==
    [i \in DOMAIN list |->
        IF list[i].id = id THEN [list[i] EXCEPT !.text = text] ELSE list[i]]

\* The onStreamUpdate callback handleSend passes: part_000:400-415.  What it
\* leaves of isStreaming, isLoading and the messages.
onStreamUpdate_append(k, streamText) ==
    [isStreaming |-> TRUE,
     isLoading   |-> IF ~sendCalls[k].isStreaming THEN FALSE ELSE isLoading,
     messages    |-> Append(chatMessages,
                        [id |-> StreamId(k), role |-> "model", text |-> streamText])]
onStreamUpdate(k, streamText) ==
    IF ~sendCalls[k].isStreaming
    THEN [isStreaming |-> TRUE,
          isLoading   |-> FALSE,
          messages    |-> Append(chatMessages,
                             [id |-> StreamId(k), role |-> "model", text |-> streamText])]
    ELSE [isStreaming |-> TRUE,
          isLoading   |-> isLoading,
          messages    |-> MapText(chatMessages, StreamId(k), streamText)]

\* handleSend with neither text nor attachment: part_000:356 returns.
handleSendBlank ==
    /\ nSends < MaxSends
    /\ nSends' = nSends + 1
    /\ sendCalls' = [sendCalls EXCEPT ![nSends + 1] = [NoCall EXCEPT !.pc = "blank"]]
    /\ UNCHANGED << chatMessages, isLoading >>
    /\ UNCHANGED << clientVars, turnVars, vmVars, storeVars, swVars >>

\* handleSend up to its await: part_000:353-395.
handleSend(mode) ==
    /\ nSends < MaxSends
    /\ nSends' = nSends + 1
    /\ chatMessages' = Append(chatMessages,
                          [id |-> UserId(nSends + 1), role |-> "user", text |-> 1])
    /\ isLoading' = TRUE
    /\ sendCalls' = [sendCalls EXCEPT ![nSends + 1] =
                        [NoCall EXCEPT !.pc = "awaiting", !.mode = mode]]
    /\ UNCHANGED << clientVars, turnVars, vmVars, storeVars, swVars >>

\* One chunk of the reply stream: geminiService.ts:244-252.  A chunk without
\* text (0) is passed over.
streamChunk(k, text) ==
    LET c == sendCalls[k]
        u == onStreamUpdate(k, c.fullText + text)
    IN
    /\ c.pc = "awaiting"
    /\ c.mode = "default"
    /\ c.nChunks < MaxChunks
    /\ IF text # 0
       THEN /\ sendCalls' = [sendCalls EXCEPT ![k] =
                                [c EXCEPT !.fullText = c.fullText + text,
                                          !.nChunks = c.nChunks + 1,
                                          !.isStreaming = u.isStreaming]]
            /\ isLoading' = u.isLoading
            /\ chatMessages' = u.messages
       ELSE /\ sendCalls' = [sendCalls EXCEPT ![k] = [c EXCEPT !.nChunks = c.nChunks + 1]]
            /\ UNCHANGED << chatMessages, isLoading >>
    /\ UNCHANGED nSends
    /\ UNCHANGED << clientVars, turnVars, vmVars, storeVars, swVars >>

\* The text of the message sendMessageToGemini returns: the accumulated text
\* of the stream (geminiService.ts:255-260), or the caption of a generated
\* image or video (132-148, 190-208).
FinalText(c) == IF c.mode = "default" THEN c.fullText ELSE 1

\* sendMessageToGemini returns: part_000:420-431.
sendResolved(k) ==
    LET c == sendCalls[k] IN
    /\ c.pc = "awaiting"
    /\ chatMessages' =
          IF ~c.isStreaming
          THEN Append(chatMessages,
                      [id |-> FinalId(k), role |-> "model", text |-> FinalText(c)])
          ELSE MapText(chatMessages, StreamId(k), FinalText(c))
    /\ isLoading' = FALSE
    /\ sendCalls' = [sendCalls EXCEPT ![k] = [c EXCEPT !.pc = "done"]]
    /\ UNCHANGED nSends
    /\ UNCHANGED << clientVars, turnVars, vmVars, storeVars, swVars >>

\* sendMessageToGemini throws: part_000:427-431.
sendRejected(k) ==
    LET c == sendCalls[k] IN
    /\ c.pc = "awaiting"
    /\ isLoading' = FALSE
    /\ sendCalls' = [sendCalls EXCEPT ![k] = [c EXCEPT !.pc = "failed"]]
    /\ UNCHANGED << chatMessages, nSends >>
    /\ UNCHANGED << clientVars, turnVars, vmVars, storeVars, swVars >>

NextChat ==
    \/ handleSendBlank
    \/ \E mode \in Modes : handleSend(mode)
    \/ \E k \in 1..MaxSends, text \in 0..1 : streamChunk(k, text)
    \/ \E k \in 1..MaxSends : sendResolved(k)
    \/ \E k \in 1..MaxSends : sendRejected(k)

SpecChat == Init /\ [][NextChat]_vars

---------------------------------------------------------------------------
\* The service worker's fetch listener: service-worker.js:36-83.

\* String.prototype.includes, for a needle that is a whole label of the host
\* name or a whole segment of the path.
Includes(parts, needle) == \E i \in DOMAIN parts : parts[i] = needle

\* The three strategies in the order the listener tries them:
\* service-worker.js:41-43, 46-59, 62-82.
Route(req) ==
    IF Includes(req.host, "googleapis") \/ Includes(req.path, "generateContent")
    THEN "network"
    ELSE IF \/ req.host = EsmSh
            \/ req.host = FontsGoogleapis
            \/ req.host = FontsGstatic
            \/ req.host = CdnTailwind
         THEN "swr"
         ELSE "cacheFirst"

\* A fetch event.  `fails`: the network request fails; `basicOk`: its response
\* has status 200 and type 'basic'.
fetchEvent(req, fails, basicOk) ==
    LET route == Route(req)
        hit   == cache[req] # 0
        fromCache == route # "network" /\ hit
        goes  == route # "cacheFirst" \/ ~hit
        puts  == /\ goes
                 /\ ~fails
                 /\ \/ route = "swr"
                    \/ route = "cacheFirst" /\ basicOk
    IN
    /\ nFetches < MaxFetches
    /\ nFetches' = nFetches + 1
    /\ inflight' = IF puts THEN inflight \cup {[req |-> req, version |-> netVersion]}
                   ELSE inflight
    /\ lastFetch' = << [req     |-> req,
                        route   |-> route,
                        hit     |-> hit,
                        served  |-> IF fromCache THEN "cache"
                                    ELSE IF fails THEN "error" ELSE "network",
                        version |-> IF fromCache THEN cache[req]
                                    ELSE IF fails THEN 0 ELSE netVersion,
                        puts    |-> puts] >>
    /\ UNCHANGED << cache, netVersion >>
    /\ UNCHANGED << clientVars, turnVars, vmVars, storeVars, chatVars >>

\* The network response arrives and is put in the cache:
\* service-worker.js:50-53, 73-77.
networkResponse(p) ==
    /\ p \in inflight
    /\ inflight' = inflight \ {p}
    /\ cache' = [cache EXCEPT ![p.req] = p.version]
    /\ UNCHANGED << netVersion, nFetches, lastFetch >>
    /\ UNCHANGED << clientVars, turnVars, vmVars, storeVars, chatVars >>

\* The servers publish a new version of the resources.
publish ==
    /\ netVersion < MaxVersion
    /\ netVersion' = netVersion + 1
    /\ UNCHANGED << cache, inflight, nFetches, lastFetch >>
    /\ UNCHANGED << clientVars, turnVars, vmVars, storeVars, chatVars >>

NextWorker ==
    \/ \E req \in Requests, fails \in BOOLEAN, basicOk \in BOOLEAN :
          fetchEvent(req, fails, basicOk)
    \/ \E p \in inflight : networkResponse(p)
    \/ publish

SpecWorker == Init /\ [][NextWorker]_vars

---------------------------------------------------------------------------
\* Properties.

\* C1 (SpecPlayback).  Playback scheduling: every buffer handed to playAudio
\* is started at max(current clock time, nextStartTime) and nextStartTime
\* becomes that start plus the buffer's duration; so the starts never decrease,
\* a buffer's interval never overlaps its predecessor's, and a buffer arriving
\* no later than its predecessor's end starts exactly at that end.
C1_PlaybackScheduling ==
    [][ nSched' = nSched + 1 =>
          LET b == lastSched'[1] IN
          /\ b.at = currentTime
          /\ b.start = Max(currentTime, nextStartTime)
          /\ nextStartTime' = b.start + b.dur
          /\ lastSched # << >> =>
                LET p == lastSched[1] IN
                /\ b.start >= p.start
                /\ b.start >= p.start + p.dur
                /\ (b.at <= p.start + p.dur => b.start = p.start + p.dur)
      ]_vars

\* A second buffer has arrived before the first had finished and was queued
\* behind it.
C1_Witness ==
    /\ nSched >= 2
    /\ lastSched[1].at < lastSched[1].start

\* C2 (SpecTranscript).  Model transcript timing: every message carrying an
\* output transcription has its onTranscript(text, false) call either still
\* pending or made exactly once, and the call is made no earlier than
\* L = max(0, nextStartTime - clock), taken at arrival, after the arrival.
C2_ModelTranscriptTiming ==
    /\ nOut = Cardinality(timers) + nModel
    /\ \A t1 \in timers, t2 \in timers : t1.id = t2.id => t1 = t2
    /\ \A t \in timers : t.id \in 1..nOut
    /\ (lastTranscript # << >> /\ ~lastTranscript[1].isUser) =>
          LET d == lastTranscript[1] IN
          /\ d.id \in 1..nOut
          /\ \A t \in timers : t.id # d.id
          /\ d.at >= d.arrived + Max(0, d.nst - d.ct)

\* A model transcript that arrived while audio was queued (L > 0) has been
\* delivered.
C2_Witness ==
    /\ lastTranscript # << >>
    /\ ~lastTranscript[1].isUser
    /\ lastTranscript[1].nst - lastTranscript[1].ct > 0
    /\ lastTranscript[1].at > lastTranscript[1].arrived

\* C3 (SpecTranscript).  User transcript immediacy: every message carrying an
\* input transcription has onTranscript(text, true) called while it is
\* handled, whatever else the message carries.
C3_UserTranscriptImmediate ==
    /\ nUser = nInp
    /\ (lastTranscript # << >> /\ lastTranscript[1].isUser) =>
          lastTranscript[1].at = lastTranscript[1].arrived

\* C4 (SpecCapture).  Mute gating: a capture tick taken while the mute flag is
\* set reports volume 0 and hands nothing to the outbound path: no frame is
\* counted, sent or chained on the session.
C4_MuteGating ==
    [][ (isMuted /\ \E rms \in Volumes : onaudioprocess(rms)) =>
          /\ lastTick'[1].volume = 0
          /\ ~lastTick'[1].forwarded
          /\ UNCHANGED << frames, sent, sentNotOpen, thenQueue >>
      ]_vars

\* A muted tick has been taken on an open session.
C4_Witness ==
    /\ lastTick # << >>
    /\ lastTick[1].muted
    /\ ws = "open"
    /\ isMuted

\* C5 (SpecTurns).  Turn merging: the message list has one turn per maximal run
\* of same-speaker events, in order, each turn's text the in-order
\* concatenation of its run's chunks, and no two adjacent turns of one speaker.
Speaker(i) == Role(fed[i].isUser)

TurnStarts == {i \in 1..Len(fed) : i = 1 \/ Speaker(i) # Speaker(i - 1)}

NthStart(k) == CHOOSE i \in TurnStarts : Cardinality({j \in TurnStarts : j <= i}) = k

TurnEnd(k) == IF k = Cardinality(TurnStarts) THEN Len(fed) ELSE NthStart(k + 1) - 1

RECURSIVE ConcatTexts(_, _)
ConcatTexts(lo, hi) == IF lo > hi THEN "" ELSE fed[lo].text \o ConcatTexts(lo + 1, hi)

C5_TurnMerging ==
    /\ Len(messages) = Cardinality(TurnStarts)
    /\ \A k \in 1..Len(messages) :
          /\ messages[k].role = Speaker(NthStart(k))
          /\ messages[k].text = ConcatTexts(NthStart(k), TurnEnd(k))
    /\ \A k \in 1..(Len(messages) - 1) : messages[k].role # messages[k + 1].role

\* (model,'Hel'), (model,'lo'), (user,'Hi') has given model 'Hello', user 'Hi'.
C5_Witness ==
    /\ fed = << [text |-> "Hel", isUser |-> FALSE], [text |-> "lo", isUser |-> FALSE],
                [text |-> "Hi", isUser |-> TRUE] >>
    /\ messages = << [role |-> "model", text |-> "Hello"], [role |-> "user", text |-> "Hi"] >>

C7_NoSourcesAfterDisconnect ==
    (disconnects > 0 /\ outputAudioContext = "closed") => sources = {}

\* C8 (SpecPlayback).  Disconnect ordering and release: a disconnect() call
\* stops playback, then releases the input resources, then closes the session,
\* and leaves the client with no live microphone stream and no open context.
InOrder(trace) ==
    \A i \in 1..Len(trace), j \in 1..Len(trace) :
       i < j => LET rank == [e \in {"stopAll", "closeInput", "closeOutput", "closeSession"} |->
                               CASE e = "stopAll" -> 1 [] e = "closeInput" -> 2
                                 [] e = "closeOutput" -> 3 [] OTHER -> 4]
                IN rank[trace[i]] < rank[trace[j]]

C8_DisconnectReleases ==
    [][ disconnects' = disconnects + 1 =>
          /\ InOrder(lastTrace')
          /\ micStream' = "none"
          /\ inputAudioContext' # "open"
          /\ outputAudioContext' # "open"
      ]_vars

\* C9 (SpecPlayback).  Cancellation of an in-flight connect: once disconnect()
\* has been called while connect() was suspended and every continuation has
\* run, there is no open or opening remote session, no live microphone and no
\* open audio context.
C9_CancelledConnectLeavesNothing ==
    (cancelled /\ connectPc \in {"done", "failed"} /\ session # "pending") =>
        /\ ws \notin {"connecting", "open"}
        /\ micStream = "none"
        /\ inputAudioContext # "open"
        /\ outputAudioContext # "open"

\* C10 (SpecPlayback).  Activity notification: the onAudioActivity calls are,
\* in order, one per event of the remote connection: true for its
\* acknowledgement (open), false for each closure and each error.
C10_ActivityFollowsRemote ==
    /\ Len(activity) = Len(remoteEvents)
    /\ \A i \in 1..Len(activity) : activity[i] = (remoteEvents[i] = "open")

\* The connection was acknowledged, then failed and closed.
C10_Witness ==
    /\ remoteEvents = << "open", "error", "close" >>
    /\ activity = << TRUE, FALSE, FALSE >>

\* C11 (SpecPlayback).  Connect failure: when connect() has failed - the
\* microphone was refused, or the remote connection failed before it was
\* acknowledged - the last activity notification is isActive = false and
\* connect() has ended as a failed operation; after a microphone failure no
\* remote connection has been opened.
C11_ConnectFailureReported ==
    /\ (connectPc = "failed" \/ session = "dead") =>
          /\ activity # << >>
          /\ activity[Len(activity)] = FALSE
          /\ connectPc = "failed"
    /\ (connectPc = "failed") => ws = "none"

\* C12 (SpecPlayback).  After disconnect(): once disconnect() has been called
\* on a client whose connect() got as far as opening a remote connection, and
\* connect() and the opening and closing of that connection have run their
\* course, the last activity notification delivered is isActive = false.
C12_InactiveAfterDisconnect ==
    ( /\ disconnects > 0
      /\ ws # "none"
      /\ connectPc \in {"done", "failed"}
      /\ session # "pending"
      /\ ws \notin {"connecting", "closing"} ) =>
        /\ activity # << >>
        /\ activity[Len(activity)] = FALSE

\* C13 (SpecCapture).  Outbound path only while Open: no captured frame is
\* handed to sendRealtimeInput on a remote connection that is not open.
C13_OutboundOnlyWhileOpen == sentNotOpen = 0

\* C14 (SpecCapture).  No outbound buffering: at most the current frame is
\* held for transmission; frames captured while the session is opening do not
\* pile up to be sent when it opens.
C14_NoOutboundBuffering ==
    Cardinality({i \in DOMAIN thenQueue : thenQueue[i] = "send"}) <= 1

\* C15 (SpecPlayback).  No silent drop: every decodable model-audio payload
\* carried by a message received on the open connection, in whichever part,
\* has been scheduled as exactly one playback source.
C15_NoSilentDrop == nSched = nAudio

\* C16 (SpecPlayback), as claimed.  Timeline cursor invariant: in every state
\* of a connected client nextStartTime is at or beyond the playback clock.
C16_CursorNotBehindClock ==
    outputAudioContext # "null" => nextStartTime >= currentTime

\* C16 (SpecPlayback), amended.  nextStartTime is written by playAudio alone
\* and never decreases; every buffer starts no earlier than the clock time at
\* which it is scheduled, which leaves nextStartTime beyond the clock.  Between
\* enqueues the clock may run past it.
C16_CursorReestablished ==
    [][ /\ nextStartTime' >= nextStartTime
        /\ nSched' = nSched => nextStartTime' = nextStartTime
        /\ nSched' = nSched + 1 =>
              /\ lastSched'[1].start >= currentTime
              /\ nextStartTime' > currentTime'
      ]_vars

\* The first buffer arrived when the clock had already passed the cursor, and
\* was started at the clock's time.
C16_Witness ==
    /\ nSched = 1
    /\ lastSched[1].at >= 1
    /\ lastSched[1].start = lastSched[1].at
    /\ nextStartTime > currentTime

\* C17 (SpecPlayback).  Decode errors are local: a message whose audio payload
\* fails to decode changes neither nextStartTime nor the tracked sources, nor
\* the connection, nor the activity reported; and once a decode has failed, a
\* message with a decodable payload is scheduled as ever.
C17_DecodeErrorsLocal ==
    [][ /\ (\E d \in Durations : onmessage(FALSE, FALSE, "bad", d)) =>
              UNCHANGED << nextStartTime, nSched, sources, ws, session, activity >>
        /\ ("onmessage" \in unhandled
               /\ \E d \in Durations : onmessage(FALSE, FALSE, "ok", d)) =>
              /\ nSched' = nSched + 1
              /\ lastSched'[1].start = Max(currentTime, nextStartTime)
              /\ nextStartTime' = lastSched'[1].start + lastSched'[1].dur
              /\ Cardinality(sources') = Cardinality(sources) + 1
      ]_vars

\* The first message's payload failed to decode; the second message's was
\* scheduled, on a connection still open and reported active.
C17_Witness ==
    /\ msgs = 2
    /\ "onmessage" \in unhandled
    /\ nSched = 1
    /\ lastSched[1].msg = 2
    /\ ws = "open"
    /\ activity = << TRUE >>

\* C18 (SpecPlayback).  Closed and Error are terminal: once the remote
\* connection has closed or errored, or disconnect() has been called, no
\* remote connection is opened and no isActive = true is reported.
C18_TerminalNoReconnect ==
    [][ (ws \in {"closed", "errored"} \/ disconnects > 0) =>
          /\ ~(ws # "connecting" /\ ws' = "connecting")
          /\ Len(activity') > Len(activity) => ~activity'[Len(activity')]
      ]_vars

\* C19 (SpecCapture).  setMute(b) is a pure state set: it sets the mute flag to
\* b and nothing else; no step that changes the flag touches the session, the
\* connection, what was sent or is waiting to be sent, the cursor, the sources
\* or the contexts; and every capture tick is gated by the flag as it then is.
C19_SetMutePure ==
    [][ /\ \A b \in BOOLEAN : setMute(b) => isMuted' = b
        /\ isMuted' # isMuted =>
              UNCHANGED << session, ws, thenQueue, sent, sentNotOpen, frames,
                           nextStartTime, sources, inputAudioContext,
                           outputAudioContext >>
        /\ (\E rms \in Volumes : onaudioprocess(rms)) =>
              /\ lastTick'[1].muted = isMuted
              /\ lastTick'[1].forwarded => ~isMuted
              /\ isMuted => sent' = sent
      ]_vars

\* A frame was sent; then the flag was set and the next tick was gated.
C19_Witness ==
    /\ sent = 1
    /\ frames = 1
    /\ isMuted
    /\ lastTick # << >>
    /\ lastTick[1].muted
    /\ ~lastTick[1].forwarded

\* C20 (SpecPlayback).  In-flight tracking: the tracked sources are exactly the
\* scheduled sources whose onended callback has not run, each tracked once; so
\* when all of them have ended the set is empty.
C20_InFlightTracking ==
    /\ ended \subseteq 1..nSched
    /\ {src.id : src \in sources} = (1..nSched) \ ended
    /\ \A s1 \in sources, s2 \in sources : s1.id = s2.id => s1 = s2
    /\ ended = 1..nSched => sources = {}

\* Two buffers were scheduled and both have ended.
C20_Witness ==
    /\ nSched = 2
    /\ ended = {1, 2}
    /\ sources = {}

\* C21 (SpecVoiceMode).  Mute state survives a client replacement: no
\* microphone frame is transmitted by any client while the mute state shown by
\* VoiceMode is on.
C21_NoFrameWhileMuteShown == ~vmLeak

\* C22 (SpecVoiceMode).  Activity flag follows the current client: the close
\* of a superseded client's connection, arriving while the current client's
\* connection is open, leaves the isActive state shown as it is.
C22_ActiveFollowsCurrent ==
    [][ ( /\ vmCur > 0
          /\ vmClients[vmCur].ws = "open"
          /\ \E c \in 1..MaxClients :
                /\ c # vmCur
                /\ vmClients[c].ws = "closing"
                /\ vmClients'[c].ws = "closed" ) =>
          uiActive' = uiActive
      ]_vars

\* C23 (SpecOrder).  Model transcript order: the deferred deliveries of model
\* transcript chunks are made in the order of arrival of their messages: no
\* chunk that arrived while audio was queued is delivered while the chunk of
\* an earlier message is still pending.
C23_ModelTranscriptOrder ==
    [][ (nModel' = nModel + 1 /\ lastTranscript'[1].nst > lastTranscript'[1].ct) =>
          \A t \in timers' : t.id > lastTranscript'[1].id
      ]_vars

\* C24 (SpecCancel).  No transcript after disconnect: once disconnect() has
\* been called on a client whose session had opened, no onTranscript call is
\* made.
C24_NoTranscriptAfterDisconnect ==
    [][ (disconnects > 0 /\ ~cancelled) => UNCHANGED << nModel, nUser >> ]_vars

\* C25 (SpecStore).  Debounced save: at most one save timer is pending per
\* session id; a saveChat call with messages leaves, for its id, exactly the
\* timer of that call, due one second later and holding its messages and
\* mode, writes nothing itself and leaves the timers of the other ids alone;
\* and the timer, when it runs, is the only one of its id and writes what it
\* holds.
C25_DebouncedSave ==
    [][ /\ \A id \in Ids : Cardinality(PendingOf(pendingSaves', id)) <= 1
        /\ \A id \in Ids, snap \in 1..MaxSnap, mode \in Modes :
              saveChat(id, snap, mode) =>
                 /\ PendingOf(pendingSaves', id) =
                       {[tid |-> nSaves + 1, id |-> id, due |-> clock + SaveDelay,
                         msgs |-> snap, mode |-> mode]}
                 /\ \A o \in Ids \ {id} :
                       PendingOf(pendingSaves', o) = PendingOf(pendingSaves, o)
                 /\ UNCHANGED << sessions, stored, nWrites >>
        /\ \A t \in pendingSaves :
              saveTimerFire(t) =>
                 /\ PendingOf(pendingSaves, t.id) = {t}
                 /\ PendingOf(pendingSaves', t.id) = {}
                 /\ clock >= t.due
                 /\ nWrites' = nWrites + 1
                 /\ stored'[t.id] = << t.msgs >>
                 /\ \E i \in DOMAIN sessions' :
                       sessions'[i] = [id |-> t.id, mode |-> t.mode, timestamp |-> clock]
      ]_vars

\* Two saveChat calls for "a" less than a second apart, the second with
\* message list 2, have produced one write, of list 2.
C25_Witness ==
    /\ nSaves = 2
    /\ nWrites = 1
    /\ pendingSaves = {}
    /\ lastWrite = << [id |-> "a", by |-> "timer"] >>
    /\ stored["a"] = << 2 >>
    /\ Len(sessions) = 1
    /\ sessions[1].timestamp <= SaveDelay + 1

\* C26 (SpecStore).  Immediate save supersedes pending save: a
\* saveChatImmediately call with messages writes them in the call and leaves
\* no timer pending and no saveTimers entry for its id; every pending timer
\* is the one its id's entry names (so the cancellation reaches it).
C26_ImmediateSupersedes ==
    [][ /\ \A id \in Ids, snap \in 1..MaxSnap, mode \in Modes :
              saveChatImmediately(id, snap, mode) =>
                 /\ stored'[id] = << snap >>
                 /\ \E i \in DOMAIN sessions' :
                       sessions'[i] = [id |-> id, mode |-> mode, timestamp |-> clock]
                 /\ PendingOf(pendingSaves', id) = {}
                 /\ saveTimers'[id] = 0
                 /\ \A o \in Ids \ {id} :
                       PendingOf(pendingSaves', o) = PendingOf(pendingSaves, o)
        /\ \A t \in pendingSaves' : saveTimers'[t.id] = t.tid
      ]_vars

\* A saveChat was pending when saveChatImmediately was called for the same
\* id: its timer is gone and the only write is the immediate one.
C26_Witness ==
    /\ nSaves = 2
    /\ nWrites = 1
    /\ pendingSaves = {}
    /\ lastWrite # << >>
    /\ lastWrite[1].by = "immediate"

\* C27 (SpecStore).  Deletion is durable: a session id deleted and not saved
\* again since has neither a session entry nor a messages key.
C27_DeletionDurable ==
    \A id \in deleted :
       /\ stored[id] = << >>
       /\ \A i \in DOMAIN sessions : sessions[i].id # id

\* C28 (SpecStore).  Store consistency: the session list holds at most one
\* entry per session id, and an id has an entry exactly when it has a
\* messages key.
C28_StoreConsistent ==
    /\ \A i \in DOMAIN sessions, j \in DOMAIN sessions :
          sessions[i].id = sessions[j].id => i = j
    /\ \A id \in Ids :
          (\E i \in DOMAIN sessions : sessions[i].id = id) <=> stored[id] # << >>

\* Two chats were written, one of them twice or again after a deletion, and
\* one has been deleted and not saved since.
C28_Witness ==
    /\ nWrites = 2
    /\ Len(sessions) = 1
    /\ deleted # {}

\* C29 (SpecChat).  Chat send accounting: a handleSend call never has more
\* than one model message in the list; once it has completed without error
\* the list holds exactly one user message of it and, after that, exactly one
\* model message of it, with the text of the final response; the first chunk
\* with text appends one message, every later chunk and the final response of
\* a streamed reply leave the length of the list alone, the final response
\* of a reply that was not streamed appends one message, a failure adds
\* nothing; and isLoading is false when the call finishes either way.
C29_SendAccounting ==
    [][ /\ \A k \in 1..MaxSends :
              LET U == {i \in DOMAIN chatMessages' :
                           chatMessages'[i].id.call = k /\ chatMessages'[i].role = "user"}
                  M == {i \in DOMAIN chatMessages' :
                           chatMessages'[i].id.call = k /\ chatMessages'[i].role = "model"}
              IN
              /\ Cardinality(M) <= 1
              /\ sendCalls'[k].pc = "done" =>
                    /\ Cardinality(U) = 1
                    /\ Cardinality(M) = 1
                    /\ \A i \in U, j \in M :
                          /\ i < j
                          /\ chatMessages'[j].text = FinalText(sendCalls'[k])
        /\ \A k \in 1..MaxSends :
              /\ streamChunk(k, 1) =>
                    Len(chatMessages') =
                       Len(chatMessages) + (IF sendCalls[k].isStreaming THEN 0 ELSE 1)
              /\ sendResolved(k) =>
                    /\ Len(chatMessages') =
                          Len(chatMessages) + (IF sendCalls[k].isStreaming THEN 0 ELSE 1)
                    /\ ~isLoading'
              /\ sendRejected(k) =>
                    /\ chatMessages' = chatMessages
                    /\ ~isLoading'
      ]_vars

\* The first call was answered by a stream of two chunks with text, the
\* second by a response that was not streamed; both have completed.
C29_Witness ==
    /\ sendCalls[1].pc = "done"
    /\ sendCalls[1].isStreaming
    /\ sendCalls[1].fullText = 2
    /\ sendCalls[2].pc = "done"
    /\ ~sendCalls[2].isStreaming
    /\ Len(chatMessages) = 4
    /\ ~isLoading

\* C30 (SpecWorker).  Service-worker fetch routing: a request to esm.sh,
\* fonts.googleapis.com, fonts.gstatic.com or cdn.tailwindcss.com is handled
\* stale-while-revalidate (served from the cache when it is there, and the
\* network response is put in the cache whenever there is one); a call of
\* the API goes to the network and is never cached.
C30_FetchRouting ==
    /\ \A i \in DOMAIN lastFetch :
          LET f == lastFetch[i] IN
          /\ f.req.host \in {EsmSh, FontsGoogleapis, FontsGstatic, CdnTailwind} =>
                /\ f.route = "swr"
                /\ f.hit => f.served = "cache"
                /\ f.served = "network" => f.puts
          /\ f.req.host = ApiHost =>
                /\ f.route = "network"
                /\ ~f.puts
    /\ \A r \in Requests : r.host = ApiHost => cache[r] = 0

====
